---- MODULE Spec2Model ----
(***************************************************************************)
(* Model of python/run-tests.py: the priority task queue filled by main(), *)
(* the pool of process_queue worker threads, and run_individual_python_test *)
(* with its isolated directories, fail-fast exit and skip registry.         *)
(*                                                                          *)
(* Strings that the program only compares (interpreter names, test goals,   *)
(* uuid4 directory names) are modelled by their rank in string order, so    *)
(* that "<" on the ranks is Python's "<" on the strings.                    *)
(***************************************************************************)
EXTENDS Integers, Sequences, FiniteSets, TLC

\* ---------------------------------------------------------------- bounds
\* most tasks main() enqueues (len(python_execs) * number of goals)
MaxTasks == 3
\* largest --parallelism value tried (worker threads started)
MaxWorkers == 2
\* largest sum of enqueued tasks and worker threads in one run
MaxLoad == 4
\* distinct interpreter names the caller may list in --python-executables
NumExecs == 2
\* distinct test goal names the caller may list
NumGoals == 2
\* distinct values str(uuid.uuid4()) takes for tmp_dir
NumNames == 2
\* distinct values str(uuid.uuid4()) takes for the directory below tmp_dir
NumNestedNames == 1
\* most lines in one captured output in the output-scanning specification
MaxLines == 3

Workers == 1..MaxWorkers
ExecNames == 1..NumExecs
GoalNames == 1..NumGoals
Names == 1..NumNames
NestedNames == 1..NumNestedNames

\* sequences over S of length 1..n
SeqsUpTo(S, n) == UNION {[1..k -> S] : k \in 1..n}

\* ------------------------------------------------------- captured output
\* A line of the captured buffer is a sequence of tokens. The tokens are the
\* pieces the two regular expressions and the decoder tell apart:
\*   "test_"  " (pyspark."  ") ... skip"  ") ... SKIP"  ") ... Skip"
\*   "digit" (a decimal digit)  "txt" (other text)  "xFF" (a byte that is not
\*   valid UTF-8)  "uFFFD" (the replacement character)  "nl" (line end)
SkipLine == <<"test_", "txt", " (pyspark.", "txt", ") ... skip", "nl">>
SKIPLineBadByte == <<"test_", "xFF", " (pyspark.", "txt", ") ... SKIP", "nl">>
MixedCaseLine == <<"test_", "txt", " (pyspark.", "txt", ") ... Skip", "nl">>
PlainLine == <<"txt", "nl">>
NumericLine == <<"digit", "txt", "nl">>
RawLines == {SkipLine, SKIPLineBadByte, MixedCaseLine, PlainLine, NumericLine}

\* line.decode("utf-8", "replace")
Decode(line) == [i \in DOMAIN line |-> IF line[i] = "xFF" THEN "uFFFD" ELSE line[i]]

\* re.search(r'test_.* \(pyspark\..*\) ... (skip|SKIP)', line)
SkipSearch(line) ==
    \E i, j, k \in DOMAIN line :
        /\ i < j /\ j < k
        /\ line[i] = "test_"
        /\ line[j] = " (pyspark."
        /\ line[k] \in {") ... skip", ") ... SKIP"}
        /\ \A m \in i..k : line[m] # "nl"

\* re.match('[0-9]+', decoded_line)
NumericMatch(line) == Len(line) > 0 /\ line[1] = "digit"

\* map(lambda line: line.decode("utf-8", "replace"), iter(per_test_output))
RECURSIVE DecodedLines(_)
DecodedLines(buf) ==
    IF buf = <<>> THEN <<>>
    ELSE <<Decode(Head(buf))>> \o DecodedLines(Tail(buf))

\* a filter that keeps the matching lines but yields them last-first
RECURSIVE SkippedTestsReversed(_)
SkippedTestsReversed(buf) ==
    IF buf = <<>> THEN <<>>
    ELSE LET rest == SkippedTestsReversed(Tail(buf))
         IN  IF SkipSearch(Decode(Head(buf))) THEN rest \o <<Decode(Head(buf))>> ELSE rest

\* list(filter(lambda line: re.search(...), decoded_lines))
RECURSIVE SkippedTests(_)
SkippedTests(buf) ==
    IF buf = <<>> THEN <<>>
    ELSE LET d == Decode(Head(buf))
             rest == SkippedTests(Tail(buf))
         IN  IF SkipSearch(d) THEN <<d>> \o rest ELSE rest

\* the lines the failure path prints: decoded, without those that start
\* with a digit
RECURSIVE EchoedLines(_)
EchoedLines(buf) ==
    IF buf = <<>> THEN <<>>
    ELSE LET d == Decode(Head(buf))
             rest == EchoedLines(Tail(buf))
         IN  IF NumericMatch(d) THEN rest ELSE <<d>> \o rest

\* the captured outputs a subprocess produces in the scheduler specification
Outputs == { <<PlainLine>>, <<NumericLine, SKIPLineBadByte, PlainLine, SkipLine>> }

\* ------------------------------------------------------------ task queue
\* heavy_tests prefixes: the even-ranked goals stand for the goals that start
\* with one of them
HeavyGoal(goal) == goal % 2 = 0

HeavyPriority == 0
LightPriority == 100

NoTask == [seq |-> 0, priority |-> 0, exec |-> 0, goal |-> 0]

\* Python's "<" on the tuples (priority, (python_exec, test_goal))
TupleLess(a, b) ==
    \/ a.priority < b.priority
    \/ a.priority = b.priority /\ a.exec < b.exec
    \/ a.priority = b.priority /\ a.exec = b.exec /\ a.goal < b.goal

\* an order that looks at the priority alone
PriorityOnlyLess(a, b) == a.priority < b.priority

\* an order that prefers the larger priority value
TupleGreater(a, b) == TupleLess(b, a)

\* the order the heap of Queue.PriorityQueue keeps
EntryLess(a, b) == TupleLess(a, b)

\* the entries get_nowait() may return: those no other entry is less than
\* (entries that compare equal are interchangeable for the heap)
Smallest(q) == {t \in q : \A u \in q : ~EntryLess(u, t)}

VARIABLES
    python_execs,     \* opts.python_executables.split(',')
    test_goals,       \* the goals enumerated for each interpreter, in order
    by_testnames,     \* TRUE when --testnames is given (not should_test_modules)
    parallelism,      \* opts.parallelism
    mainPc,           \* position of main()
    ei, gi,           \* indexes of the two enumeration loops of main()
    task_queue,       \* entries of the PriorityQueue
    unfinished_tasks, \* Queue.unfinished_tasks (put adds, task_done subtracts)
    started,          \* worker threads started so far
    wpc,              \* position of each worker thread
    wtask,            \* the entry each worker got from the queue
    tmp_dir,          \* tmp_dir of each worker's run_individual_python_test
    metastore_dir,    \* metastore_dir, a path below tmp_dir
    retcode,          \* exit code of each worker's subprocess
    per_test_output,  \* captured output of each worker's subprocess
    fs,               \* directories that exist below target_dir (paths)
    lock_holder,      \* worker holding FAILURE_REPORTING_LOCK, 0 when free
    log_file,         \* lines of LOG_FILE
    console,          \* failure-report output printed, in order
    SKIPPED_TESTS,    \* the manager dict, as a set of [key, lines] items
    exited,           \* the process has terminated
    exit_status,      \* its status when it has
    popped,           \* history: entries in the order get_nowait returned them
    outcome,          \* history: what became of each entry, by seq
    skipped_counts,   \* history: skipped_counts of each entry's run, by seq
    rmtree_calls,     \* history: entries whose tmp_dir removal was called (seqs)
    log_writes        \* history: the appends to LOG_FILE that were tried

inputs == <<python_execs, test_goals, by_testnames, parallelism>>
mainv == <<mainPc, ei, gi, started>>
queuev == <<task_queue, unfinished_tasks>>
workerv == <<wpc, wtask, tmp_dir, metastore_dir, retcode, per_test_output>>
reportv == <<lock_holder, log_file, console>>
procv == <<exited, exit_status>>
auxv == <<skipped_counts, rmtree_calls, log_writes>>
histv == <<popped, outcome, auxv>>

vars == <<inputs, mainv, queuev, workerv, fs, reportv, SKIPPED_TESTS, procv, histv>>

NumTasks == Len(python_execs) * Len(test_goals)

Init ==
    /\ python_execs \in SeqsUpTo(ExecNames, MaxTasks)
    /\ test_goals \in SeqsUpTo(GoalNames, MaxTasks)
    /\ Len(python_execs) * Len(test_goals) <= MaxTasks
    /\ by_testnames \in BOOLEAN
    /\ parallelism \in 1..MaxWorkers
    /\ Len(python_execs) * Len(test_goals) + parallelism <= MaxLoad
    /\ mainPc = "enumerate"
    /\ ei = 1
    /\ gi = 1
    /\ task_queue = {}
    /\ unfinished_tasks = 0
    /\ started = 0
    /\ wpc = [w \in Workers |-> "unstarted"]
    /\ wtask = [w \in Workers |-> NoTask]
    /\ tmp_dir = [w \in Workers |-> <<>>]
    /\ metastore_dir = [w \in Workers |-> <<>>]
    /\ retcode = [w \in Workers |-> 0]
    /\ per_test_output = [w \in Workers |-> <<>>]
    /\ fs = {}
    /\ lock_holder = 0
    /\ log_file = <<>>
    /\ console = <<>>
    /\ SKIPPED_TESTS = {}
    /\ exited = FALSE
    /\ exit_status = 0
    /\ popped = <<>>
    /\ outcome = [s \in 1..NumTasks |-> "queued"]
    /\ skipped_counts = [s \in 1..NumTasks |-> 0]
    /\ rmtree_calls = {}
    /\ log_writes = {}

\* ---------------------------------------------------------- process exit
\* The process terminates with the given status: its threads, the queue, the
\* lock and the manager dict are gone with it. What stays is what is outside
\* the process (the directories, LOG_FILE, what was printed) and the history.
ProcessExits(status, where) ==
    /\ exited' = TRUE
    /\ exit_status' = status
    /\ mainPc' = where
    /\ ei' = 1
    /\ gi' = 1
    /\ started' = 0
    /\ task_queue' = {}
    /\ unfinished_tasks' = 0
    /\ wpc' = [w \in Workers |-> "gone"]
    /\ wtask' = [w \in Workers |-> NoTask]
    /\ tmp_dir' = [w \in Workers |-> <<>>]
    /\ metastore_dir' = [w \in Workers |-> <<>>]
    /\ retcode' = [w \in Workers |-> 0]
    /\ per_test_output' = [w \in Workers |-> <<>>]
    /\ lock_holder' = 0
    /\ SKIPPED_TESTS' = {}

\* -------------------------------------------------------------- main()
\* priority of a goal: lines 287-292, and line 296 under --testnames
PriorityOf(goal) ==
    IF by_testnames THEN HeavyPriority
    ELSE IF HeavyGoal(goal) THEN HeavyPriority ELSE LightPriority

\* task_queue.put((priority, (python_exec, test_goal))) for the current pair of
\* the nested loops, then the loops advance; after the last pair main() goes
\* on to start the workers
Put ==
    /\ ~exited
    /\ mainPc = "enumerate"
    /\ LET e == python_execs[ei]
           g == test_goals[gi]
           entry == [seq |-> (ei - 1) * Len(test_goals) + gi,
                     priority |-> PriorityOf(g), exec |-> e, goal |-> g]
       IN  /\ task_queue' = task_queue \cup {entry}
           /\ unfinished_tasks' = unfinished_tasks + 1
    /\ IF gi < Len(test_goals)
         THEN /\ gi' = gi + 1
              /\ UNCHANGED <<ei, mainPc>>
         ELSE /\ gi' = 1
              /\ ei' = ei + 1
              /\ mainPc' = IF ei < Len(python_execs) THEN "enumerate" ELSE "start"
    /\ UNCHANGED <<inputs, started, workerv, fs, reportv, SKIPPED_TESTS, procv, histv>>

\* one turn of "for _ in range(opts.parallelism)": a daemon thread running
\* process_queue is started; after the last one main() calls join()
StartWorker ==
    /\ ~exited
    /\ mainPc = "start"
    /\ started < parallelism
    /\ started' = started + 1
    /\ wpc' = [wpc EXCEPT ![started + 1] = "get"]
    /\ mainPc' = IF started + 1 = parallelism THEN "join" ELSE "start"
    /\ UNCHANGED <<inputs, ei, gi, queuev, wtask, tmp_dir, metastore_dir, retcode,
                   per_test_output, fs, reportv, SKIPPED_TESTS, procv, histv>>

\* a join() that returns as soon as the queue holds no entry, whatever the
\* workers are still running
JoinWhenQueueEmpty ==
    /\ ~exited
    /\ mainPc = "join"
    /\ task_queue = {}
    /\ mainPc' = "passed"
    /\ UNCHANGED <<inputs, ei, gi, started, queuev, workerv, fs, reportv,
                   SKIPPED_TESTS, procv, histv>>

\* task_queue.join() returns once unfinished_tasks is 0; "Tests passed" is logged
JoinReturns ==
    /\ ~exited
    /\ mainPc = "join"
    /\ unfinished_tasks = 0
    /\ mainPc' = "passed"
    /\ UNCHANGED <<inputs, ei, gi, started, queuev, workerv, fs, reportv,
                   SKIPPED_TESTS, procv, histv>>

\* the skip report is printed from SKIPPED_TESTS, main() returns and the
\* interpreter exits with status 0 (the workers are daemon threads)
ReportAndExit ==
    /\ ~exited
    /\ mainPc = "passed"
    /\ ProcessExits(0, "done")
    /\ UNCHANGED <<inputs, fs, log_file, console, histv>>

\* KeyboardInterrupt or SystemExit while main() waits in join(): sys.exit(-1)
Interrupt ==
    /\ ~exited
    /\ mainPc = "join"
    /\ ProcessExits(-1, "interrupted")
    /\ UNCHANGED <<inputs, fs, log_file, console, histv>>

\* ------------------------------------------------------ process_queue
\* get_nowait() leaves the entry in the queue
KeepEntry(q, t) == q

\* get_nowait() takes the entry out of the queue
RemoveEntry(q, t) == q \ {t}

\* task_queue.get_nowait(): the smallest entry, or Queue.Empty and the thread
\* leaves its loop
GetNowait(w) ==
    /\ ~exited
    /\ wpc[w] = "get"
    /\ IF task_queue = {}
         THEN /\ wpc' = [wpc EXCEPT ![w] = "stopped"]
              /\ UNCHANGED <<task_queue, wtask, histv>>
         ELSE \E t \in Smallest(task_queue) :
                /\ task_queue' = RemoveEntry(task_queue, t)
                /\ wtask' = [wtask EXCEPT ![w] = t]
                /\ popped' = Append(popped, t)
                /\ UNCHANGED <<outcome, auxv>>
                /\ wpc' = [wpc EXCEPT ![w] = "uuid_tmp"]
    /\ UNCHANGED <<inputs, mainv, unfinished_tasks, tmp_dir, metastore_dir, retcode,
                   per_test_output, fs, reportv, SKIPPED_TESTS, procv>>

\* ------------------------------------------- run_individual_python_test
\* paths below target_dir, as sequences of uuid names
MaxDepth == 3
Paths == {<<n>> : n \in Names}
         \cup UNION {{<<n>> \o s : n \in Names, s \in [1..k -> NestedNames]} : k \in 1..(MaxDepth - 1)}

IsPrefix(p, q) == Len(p) <= Len(q) /\ SubSeq(q, 1, Len(p)) = p

\* os.mkdir(path) that accepts a directory that is already there
MkdirExistOk(path) == FALSE

\* os.mkdir(path) raises FileExistsError when the path exists
MkdirRaisesExists(path) == path \in fs

\* tmp_dir = os.path.join(target_dir, str(uuid.uuid4())), again while
\* os.path.isdir(tmp_dir): the name kept is one whose check found no directory
ChooseTmpDir(w) ==
    /\ ~exited
    /\ wpc[w] = "uuid_tmp"
    /\ \E n \in Names :
         /\ <<n>> \notin fs
         /\ tmp_dir' = [tmp_dir EXCEPT ![w] = <<n>>]
    /\ wpc' = [wpc EXCEPT ![w] = "mkdir_tmp"]
    /\ UNCHANGED <<inputs, mainv, queuev, wtask, metastore_dir, retcode,
                   per_test_output, fs, reportv, SKIPPED_TESTS, procv, histv>>

\* run_individual_python_test is left: its locals are gone
DropLocals(w) ==
    /\ wtask' = [wtask EXCEPT ![w] = NoTask]
    /\ tmp_dir' = [tmp_dir EXCEPT ![w] = <<>>]
    /\ metastore_dir' = [metastore_dir EXCEPT ![w] = <<>>]
    /\ retcode' = [retcode EXCEPT ![w] = 0]
    /\ per_test_output' = [per_test_output EXCEPT ![w] = <<>>]

\* the exception of a failed os.mkdir leaves run_individual_python_test; the
\* finally clause of process_queue calls task_done() and the thread dies
SetupRaises(w) ==
    /\ unfinished_tasks' = unfinished_tasks - 1
    /\ outcome' = [outcome EXCEPT ![wtask[w].seq] = "setup_error"]
    /\ wpc' = [wpc EXCEPT ![w] = "dead"]
    /\ DropLocals(w)
    /\ UNCHANGED <<fs, popped, auxv>>

\* os.mkdir(tmp_dir): creates the directory, or raises (the path exists by now,
\* or the operating system refuses)
MkdirTmp(w) ==
    /\ ~exited
    /\ wpc[w] = "mkdir_tmp"
    /\ \E oserror \in BOOLEAN :
         IF MkdirRaisesExists(tmp_dir[w]) \/ oserror
           THEN SetupRaises(w)
           ELSE /\ fs' = fs \cup {tmp_dir[w]}
                /\ wpc' = [wpc EXCEPT ![w] = "uuid_meta"]
                /\ UNCHANGED <<unfinished_tasks, histv, wtask, tmp_dir, metastore_dir,
                               retcode, per_test_output>>
    /\ UNCHANGED <<inputs, mainv, task_queue, reportv, SKIPPED_TESTS, procv>>

\* the paths the loop of lines 87-89 can end with: tmp_dir/uuid when that is
\* free, else a free path some levels below it, every level above existing
\* (line 89 joins the new name to metastore_dir)
MetastoreCandidates(t) ==
    {p \in Paths : /\ Len(p) >= 2
                   /\ IsPrefix(t, p)
                   /\ p \notin fs
                   /\ \A k \in 2..(Len(p) - 1) : SubSeq(p, 1, k) \in fs}

ChooseMetastoreDir(w) ==
    /\ ~exited
    /\ wpc[w] = "uuid_meta"
    /\ \E p \in MetastoreCandidates(tmp_dir[w]) :
         metastore_dir' = [metastore_dir EXCEPT ![w] = p]
    /\ wpc' = [wpc EXCEPT ![w] = "mkdir_meta"]
    /\ UNCHANGED <<inputs, mainv, queuev, wtask, tmp_dir, retcode,
                   per_test_output, fs, reportv, SKIPPED_TESTS, procv, histv>>

\* os.mkdir(metastore_dir)
MkdirMetastore(w) ==
    /\ ~exited
    /\ wpc[w] = "mkdir_meta"
    /\ \E oserror \in BOOLEAN :
         IF MkdirRaisesExists(metastore_dir[w]) \/ oserror
           THEN SetupRaises(w)
           ELSE /\ fs' = fs \cup {metastore_dir[w]}
                /\ wpc' = [wpc EXCEPT ![w] = "spawn"]
                /\ UNCHANGED <<unfinished_tasks, histv, wtask, tmp_dir, metastore_dir,
                               retcode, per_test_output>>
    /\ UNCHANGED <<inputs, mainv, task_queue, reportv, SKIPPED_TESTS, procv>>

\* os._exit(status) from a worker thread: the whole process is gone
OsExit(w, status, what) ==
    /\ ProcessExits(status, "killed")
    /\ outcome' = [outcome EXCEPT ![wtask[w].seq] = what]

\* subprocess.Popen(...): the subprocess runs, or Popen raises and the except
\* clause of line 115 logs and calls os._exit(1)
Spawn(w) ==
    /\ ~exited
    /\ wpc[w] = "spawn"
    /\ \E raises \in BOOLEAN :
         IF raises
           THEN /\ OsExit(w, 1, "spawn_error")
                /\ UNCHANGED <<popped, auxv>>
           ELSE /\ wpc' = [wpc EXCEPT ![w] = "wait"]
                /\ UNCHANGED <<mainv, queuev, wtask, tmp_dir, metastore_dir, retcode,
                               per_test_output, lock_holder, SKIPPED_TESTS, procv, histv>>
    /\ UNCHANGED <<inputs, fs, log_file, console>>

\* .wait() returns: the subprocess has exited with some code, its output is in
\* per_test_output
Wait(w) ==
    /\ ~exited
    /\ wpc[w] = "wait"
    /\ \E rc \in {0, 1}, out \in Outputs :
         /\ retcode' = [retcode EXCEPT ![w] = rc]
         /\ per_test_output' = [per_test_output EXCEPT ![w] = out]
         /\ outcome' = [outcome EXCEPT ![wtask[w].seq] =
                            IF rc = 0 THEN "returned_zero" ELSE "returned_nonzero"]
    /\ wpc' = [wpc EXCEPT ![w] = "cleanup"]
    /\ UNCHANGED <<inputs, mainv, queuev, wtask, tmp_dir, metastore_dir, fs,
                   reportv, SKIPPED_TESTS, procv, popped, auxv>>

\* a removal that is called on the success path alone
CleanupOnSuccessOnly(w) ==
    /\ ~exited
    /\ wpc[w] = "cleanup"
    /\ IF retcode[w] = 0
         THEN /\ \E removed \in BOOLEAN :
                   fs' = IF removed THEN {p \in fs : ~IsPrefix(tmp_dir[w], p)} ELSE fs
              /\ rmtree_calls' = rmtree_calls \cup {wtask[w].seq}
         ELSE UNCHANGED <<fs, rmtree_calls>>
    /\ wpc' = [wpc EXCEPT ![w] = "classify"]
    /\ UNCHANGED <<inputs, mainv, queuev, wtask, tmp_dir, metastore_dir, retcode,
                   per_test_output, reportv, SKIPPED_TESTS, procv, popped, outcome,
                   skipped_counts, log_writes>>

\* shutil.rmtree(tmp_dir, ignore_errors=True) (rm -rf on Darwin): the tree goes,
\* or it stays and nobody is told
Cleanup(w) ==
    /\ ~exited
    /\ wpc[w] = "cleanup"
    /\ \E removed \in BOOLEAN :
         fs' = IF removed THEN {p \in fs : ~IsPrefix(tmp_dir[w], p)} ELSE fs
    /\ rmtree_calls' = rmtree_calls \cup {wtask[w].seq}
    /\ wpc' = [wpc EXCEPT ![w] = "classify"]
    /\ UNCHANGED <<inputs, mainv, queuev, wtask, tmp_dir, metastore_dir, retcode,
                   per_test_output, reportv, SKIPPED_TESTS, procv, popped, outcome,
                   skipped_counts, log_writes>>

\* retcode != 0: "with FAILURE_REPORTING_LOCK" is entered
AcquireLock(w) ==
    /\ ~exited
    /\ wpc[w] = "classify"
    /\ retcode[w] # 0
    /\ lock_holder = 0
    /\ lock_holder' = w
    /\ wpc' = [wpc EXCEPT ![w] = "write_log"]
    /\ UNCHANGED <<inputs, mainv, queuev, wtask, tmp_dir, metastore_dir, retcode,
                   per_test_output, fs, log_file, console, SKIPPED_TESTS, procv, histv>>

\* LOG_FILE opened with 'wb': what the file held is gone with each write
WriteLogTruncating(w) ==
    /\ ~exited
    /\ wpc[w] = "write_log"
    /\ \E raises \in BOOLEAN :
         /\ IF raises
              THEN /\ lock_holder' = 0
                   /\ wpc' = [wpc EXCEPT ![w] = "summary"]
                   /\ UNCHANGED log_file
              ELSE /\ log_file' = per_test_output[w]
                   /\ wpc' = [wpc EXCEPT ![w] = "echo"]
                   /\ UNCHANGED lock_holder
         /\ log_writes' = log_writes \cup {[seq |-> wtask[w].seq, raised |-> raises,
                                              lines |-> per_test_output[w]]}
    /\ UNCHANGED <<inputs, mainv, queuev, wtask, tmp_dir, metastore_dir, retcode,
                   per_test_output, fs, console, SKIPPED_TESTS, procv, popped, outcome,
                   skipped_counts, rmtree_calls>>

\* the captured output is appended to LOG_FILE; when open or writelines
\* raises, the with blocks are left (the lock is released) and the except
\* clause of line 134 logs
WriteLog(w) ==
    /\ ~exited
    /\ wpc[w] = "write_log"
    /\ \E raises \in BOOLEAN :
         /\ IF raises
              THEN /\ lock_holder' = 0
                   /\ wpc' = [wpc EXCEPT ![w] = "summary"]
                   /\ UNCHANGED log_file
              ELSE /\ log_file' = log_file \o per_test_output[w]
                   /\ wpc' = [wpc EXCEPT ![w] = "echo"]
                   /\ UNCHANGED lock_holder
         /\ log_writes' = log_writes \cup {[seq |-> wtask[w].seq, raised |-> raises,
                                              lines |-> per_test_output[w]]}
    /\ UNCHANGED <<inputs, mainv, queuev, wtask, tmp_dir, metastore_dir, retcode,
                   per_test_output, fs, console, SKIPPED_TESTS, procv, popped, outcome,
                   skipped_counts, rmtree_calls>>

\* the lines that do not start with a digit are printed; the lock is released
\* when the with block is left, also when decoding or printing raises
Echo(w) ==
    /\ ~exited
    /\ wpc[w] = "echo"
    /\ \E raises \in BOOLEAN :
         console' = IF raises THEN console
                    ELSE Append(console, [seq |-> wtask[w].seq, part |-> "echo",
                                          lines |-> EchoedLines(per_test_output[w])])
    /\ lock_holder' = 0
    /\ wpc' = [wpc EXCEPT ![w] = "summary"]
    /\ UNCHANGED <<inputs, mainv, queuev, wtask, tmp_dir, metastore_dir, retcode,
                   per_test_output, fs, log_file, SKIPPED_TESTS, procv, histv>>

\* the failing thread ends alone (sys.exit in a thread): task_done() runs in
\* the finally clause of process_queue and the other threads go on
ExitFailureThreadOnly(w) ==
    /\ ~exited
    /\ wpc[w] = "summary"
    /\ console' = Append(console, [seq |-> wtask[w].seq, part |-> "summary", lines |-> <<>>])
    /\ wpc' = [wpc EXCEPT ![w] = "dead"]
    /\ unfinished_tasks' = unfinished_tasks - 1
    /\ outcome' = [outcome EXCEPT ![wtask[w].seq] = "failed"]
    /\ DropLocals(w)
    /\ UNCHANGED <<inputs, mainv, task_queue, fs, lock_holder, log_file, SKIPPED_TESTS,
                   procv, popped, auxv>>

\* the finally clause of line 136: print_red("Had test failures ...") and
\* os._exit(-1)
ExitFailure(w) ==
    /\ ~exited
    /\ wpc[w] = "summary"
    /\ console' = Append(console, [seq |-> wtask[w].seq, part |-> "summary", lines |-> <<>>])
    /\ OsExit(w, -1, "failed")
    /\ UNCHANGED <<inputs, fs, log_file, popped, auxv>>

\* SKIPPED_TESTS[key] = lines
DictSet(d, key, lines) == {item \in d : item.key # key} \cup {[key |-> key, lines |-> lines]}

\* retcode == 0: the output is scanned for skipped tests and, when there are
\* any, they are stored under (pyspark_python, test_name); an exception in
\* this block prints a message and calls os._exit(-1)
StoreSkips(w) ==
    /\ ~exited
    /\ wpc[w] = "classify"
    /\ retcode[w] = 0
    /\ \E raises \in BOOLEAN :
         IF raises
           THEN /\ OsExit(w, -1, "skip_error")
                /\ UNCHANGED <<popped, auxv>>
           ELSE /\ LET skipped_tests == SkippedTests(per_test_output[w])
                       key == <<wtask[w].exec, wtask[w].goal>>
                   IN  /\ SKIPPED_TESTS' = IF Len(skipped_tests) > 0
                                             THEN DictSet(SKIPPED_TESTS, key, skipped_tests)
                                             ELSE SKIPPED_TESTS
                       /\ skipped_counts' = [skipped_counts EXCEPT ![wtask[w].seq] =
                                                 Len(skipped_tests)]
                /\ wpc' = [wpc EXCEPT ![w] = "finished"]
                /\ UNCHANGED <<mainv, queuev, wtask, tmp_dir, metastore_dir, retcode,
                               per_test_output, lock_holder, procv, popped, outcome,
                               rmtree_calls, log_writes>>
    /\ UNCHANGED <<inputs, fs, log_file, console>>

\* "Finished test" is logged, run_individual_python_test returns, task_done()
\* is called and the loop goes back to get_nowait()
Finished(w) ==
    /\ ~exited
    /\ wpc[w] = "finished"
    /\ outcome' = [outcome EXCEPT ![wtask[w].seq] = "finished"]
    /\ unfinished_tasks' = unfinished_tasks - 1
    /\ wpc' = [wpc EXCEPT ![w] = "get"]
    /\ DropLocals(w)
    /\ UNCHANGED <<inputs, mainv, task_queue, fs, reportv, SKIPPED_TESTS, procv, popped,
                   auxv>>

WorkerStep(w) ==
    \/ GetNowait(w)
    \/ ChooseTmpDir(w)
    \/ MkdirTmp(w)
    \/ ChooseMetastoreDir(w)
    \/ MkdirMetastore(w)
    \/ Spawn(w)
    \/ Wait(w)
    \/ Cleanup(w)
    \/ AcquireLock(w)
    \/ WriteLog(w)
    \/ Echo(w)
    \/ ExitFailure(w)
    \/ StoreSkips(w)
    \/ Finished(w)

MainStep == Put \/ StartWorker \/ JoinReturns \/ ReportAndExit

Next == MainStep \/ Interrupt \/ \E w \in Workers : WorkerStep(w)

Spec == Init /\ [][Next]_vars

\* The runs started with --testnames and a single test name, under any list
\* of interpreters: the scheduler is the same, the inputs are fewer.
FairInit == Init /\ by_testnames /\ test_goals = <<1>>

\* The operating system schedules every thread that can run, and main() too;
\* nothing obliges an operator to interrupt.
FairSpec ==
    /\ FairInit
    /\ [][Next]_vars
    /\ WF_vars(MainStep)
    /\ \A w \in Workers : WF_vars(WorkerStep(w))

\* ------------------------------------------------------------ vocabulary
TaskSeqs == 1..NumTasks

\* some subprocess has returned a nonzero exit code
SomeNonzero == \E s \in TaskSeqs : outcome[s] \in {"returned_nonzero", "failed"}

\* main() got past task_queue.join(): "Tests passed", the report, exit status 0
CompletedNormally == mainPc \in {"passed", "done"}

C2_AllSuccessCompletion ==
    (CompletedNormally /\ parallelism <= NumTasks /\ ~SomeNonzero)
        => \A s \in TaskSeqs : outcome[s] = "finished"

\* C3 (exactly-once dispatch): no entry is returned by get_nowait twice, to the
\* same or to different workers, and an entry that was returned is no longer
\* in the queue.
C3_ExactlyOnce ==
    /\ \A i, j \in DOMAIN popped : i # j => popped[i].seq # popped[j].seq
    /\ \A i \in DOMAIN popped : popped[i] \notin task_queue
    /\ \A v, w \in Workers :
         (v # w /\ wtask[v] # NoTask /\ wtask[w] # NoTask) => wtask[v].seq # wtask[w].seq

C3_Witness ==
    \E v, w \in Workers :
        /\ v # w
        /\ wpc[v] = "wait"
        /\ wpc[w] = "wait"
        /\ wtask[v].seq # wtask[w].seq

\* C4 (priority pop order): every entry popped has a priority value no larger
\* than that of any entry still queued, so the pops, over all workers, are
\* non-decreasing in priority.
C4_PriorityPopOrder ==
    /\ \A i, j \in DOMAIN popped : i < j => popped[i].priority <= popped[j].priority
    /\ \A i \in DOMAIN popped : \A t \in task_queue : popped[i].priority <= t.priority

\* priorities [100, 0, 100] with one worker: the priority-0 task was popped first
C4_Witness ==
    /\ python_execs = <<1>>
    /\ test_goals = <<1, 2, 1>>
    /\ ~by_testnames
    /\ parallelism = 1
    /\ Len(popped) = 3
    /\ popped[1].seq = 2
    /\ popped[1].priority = HeavyPriority
    /\ popped[2].priority = LightPriority

C6_SetupFailureFatal ==
    (\E s \in TaskSeqs : outcome[s] = "setup_error") => ~CompletedNormally

\* a worker has created tmp_dir and not yet removed it
HoldsTmpDir(w) == wpc[w] \in {"uuid_meta", "mkdir_meta", "spawn", "wait", "cleanup"}

\* a worker has created metastore_dir and not yet removed it
HoldsMetastoreDir(w) == wpc[w] \in {"spawn", "wait", "cleanup"}

\* C7 (directory uniqueness): two workers never hold the same tmp_dir, nor the
\* same metastore_dir, and a held directory exists.
C7_DirectoryUniqueness ==
    /\ \A w \in Workers : HoldsTmpDir(w) => tmp_dir[w] \in fs
    /\ \A w \in Workers : HoldsMetastoreDir(w) => metastore_dir[w] \in fs
    /\ \A v, w \in Workers :
         (v # w /\ HoldsTmpDir(v) /\ HoldsTmpDir(w)) => tmp_dir[v] # tmp_dir[w]
    /\ \A v, w \in Workers :
         (v # w /\ HoldsMetastoreDir(v) /\ HoldsMetastoreDir(w))
             => metastore_dir[v] # metastore_dir[w]

\* both workers drew the same name and passed the isdir check; one has created
\* the directory and runs its subprocess, the other is about to call os.mkdir
C7_Witness ==
    \E v, w \in Workers :
        /\ v # w
        /\ wpc[v] = "wait"
        /\ wpc[w] = "mkdir_tmp"
        /\ tmp_dir[v] = tmp_dir[w]

\* C8 (no new work after a failure): once some subprocess has returned a
\* nonzero exit code, get_nowait returns no further entry.
C8_NoNewWorkAfterFailure == [][SomeNonzero => popped' = popped]_vars

\* C9 as claimed: an entry popped after the failing entry was popped never
\* gets its "Finished test".
C9_NoSuccessAfterFailingPop ==
    \A i, j \in DOMAIN popped :
        (i < j /\ outcome[popped[i].seq] \in {"returned_nonzero", "failed"})
            => outcome[popped[j].seq] # "finished"

\* C9 as amended: once the failing worker has made its exit call, no task gets
\* a "Finished test" any more.
C9_NoSuccessAfterFailureExit ==
    [][(\E s \in TaskSeqs : outcome[s] = "failed")
          => \A s \in TaskSeqs : outcome'[s] = "finished" => outcome[s] = "finished"]_vars

\* the failing worker has exited the process; an entry popped after the
\* failing one had logged "Finished test" before that
C9_Witness ==
    /\ exited
    /\ \E i, j \in DOMAIN popped :
         /\ i < j
         /\ outcome[popped[i].seq] = "failed"
         /\ outcome[popped[j].seq] = "finished"

\* ------------------------------------------- output-scanning specification
\* every captured output of up to MaxLines lines
AllOutputs == {<<>>} \cup SeqsUpTo(RawLines, MaxLines)

\* A run of one task with one worker, taken at the point where the subprocess
\* has exited with code 0 and tmp_dir has been removed (line 141), for every
\* captured output.
SkipInit ==
    /\ \E e \in ExecNames, g \in GoalNames :
         /\ python_execs = <<e>>
         /\ test_goals = <<g>>
    /\ by_testnames \in BOOLEAN
    /\ parallelism = 1
    /\ mainPc = "join"
    /\ ei = 2
    /\ gi = 1
    /\ task_queue = {}
    /\ unfinished_tasks = 1
    /\ started = 1
    /\ wpc = [w \in Workers |-> IF w = 1 THEN "classify" ELSE "unstarted"]
    /\ wtask = [w \in Workers |->
                  IF w = 1 THEN [seq |-> 1, priority |-> PriorityOf(test_goals[1]),
                                 exec |-> python_execs[1], goal |-> test_goals[1]]
                  ELSE NoTask]
    /\ \E n \in Names, m \in NestedNames :
         /\ tmp_dir = [w \in Workers |-> IF w = 1 THEN <<n>> ELSE <<>>]
         /\ metastore_dir = [w \in Workers |-> IF w = 1 THEN <<n, m>> ELSE <<>>]
    /\ retcode = [w \in Workers |-> 0]
    /\ \E out \in AllOutputs :
         per_test_output = [w \in Workers |-> IF w = 1 THEN out ELSE <<>>]
    /\ fs = {}
    /\ lock_holder = 0
    /\ log_file = <<>>
    /\ console = <<>>
    /\ SKIPPED_TESTS = {}
    /\ exited = FALSE
    /\ exit_status = 0
    /\ popped = <<wtask[1]>>
    /\ outcome = [s \in 1..1 |-> "returned_zero"]
    /\ skipped_counts = [s \in 1..1 |-> 0]
    /\ rmtree_calls = {1}
    /\ log_writes = {}

SkipWorkerStep == \E w \in Workers : StoreSkips(w) \/ Finished(w) \/ GetNowait(w)

SkipNext == SkipWorkerStep \/ JoinReturns \/ ReportAndExit

SkipSpec == SkipInit /\ [][SkipNext]_vars

\* the (pyspark_python, test_name) key of the task a worker runs
KeyOf(w) == <<wtask[w].exec, wtask[w].goal>>

\* the decoded lines of a worker's captured output that match the skip
\* pattern, in the order of the output
MatchingLines(w) == SelectSeq(DecodedLines(per_test_output[w]), SkipSearch)

PairOf(s) ==
    <<python_execs[((s - 1) \div Len(test_goals)) + 1],
      test_goals[((s - 1) % Len(test_goals)) + 1]>>

\* the lines the report loop of lines 327-331 prints, over all keys
RECURSIVE ReportedLines(_)
ReportedLines(d) ==
    IF d = {} THEN 0
    ELSE LET item == CHOOSE i \in d : TRUE
         IN  Len(item.lines) + ReportedLines(d \ {item})

\* skipped_counts summed over the entries enqueued at positions 1..n
RECURSIVE SkippedUpTo(_)
SkippedUpTo(n) == IF n = 0 THEN 0 ELSE skipped_counts[n] + SkippedUpTo(n - 1)

\* C11 (skip total): when the run has completed with every task finished, the
\* lines of the final report number as many as the skip-matching lines of all
\* the tasks' outputs together, and no key was written by two tasks, also when
\* the same (executable, goal) pair was enqueued more than once.
C11_SkipTotal ==
    (mainPc = "passed" /\ \A s \in TaskSeqs : outcome[s] = "finished")
        => /\ ReportedLines(SKIPPED_TESTS) = SkippedUpTo(NumTasks)
           /\ \A s, t \in TaskSeqs :
                (s # t /\ skipped_counts[s] > 0 /\ skipped_counts[t] > 0)
                    => PairOf(s) # PairOf(t)

\* C12 (skip handling is never fatal): an exception raised while the output of
\* a successful task is scanned or its skips are stored never ends the process.
C12_SkipHandlingNeverFatal ==
    \A s \in TaskSeqs : outcome[s] = "skip_error" => ~exited

\* C13 (success is sound): the run completes normally only when every enqueued
\* task was popped, spawned and classified as a success, and the queue counts
\* a task as done only once it is.
C13_SuccessIsSound ==
    /\ CompletedNormally => \A s \in TaskSeqs : outcome[s] = "finished"
    /\ (~exited /\ mainPc \in {"start", "join", "passed"})
           => unfinished_tasks >= Cardinality({s \in TaskSeqs : outcome[s] # "finished"})

\* ------------------------------------------------------ the worker pool
\* the worker threads that were started
StartedWorkers == {w \in Workers : wpc[w] \notin {"unstarted", "gone"}}

\* a worker is inside run_individual_python_test
Running(w) ==
    wpc[w] \in {"uuid_tmp", "mkdir_tmp", "uuid_meta", "mkdir_meta", "spawn", "wait",
                "cleanup", "classify", "write_log", "echo", "summary", "finished"}

\* the entries that were popped and whose run has not come to its end
InFlight ==
    {s \in TaskSeqs : /\ \E i \in DOMAIN popped : popped[i].seq = s
                      /\ outcome[s] \in {"queued", "returned_zero", "returned_nonzero"}}

\* C14 (concurrency bound): once main() waits in join() exactly parallelism
\* worker loops have been started, at most parallelism tasks are in flight in
\* any state, and a worker that has left its loop left it after get_nowait
\* reported the queue empty.
C14_ConcurrencyBound ==
    /\ (~exited /\ mainPc \in {"join", "passed"}) => StartedWorkers = 1..parallelism
    /\ Cardinality(StartedWorkers) <= parallelism
    /\ Cardinality(InFlight) <= parallelism
    /\ \A w \in Workers : Running(w) => wtask[w].seq \in InFlight
    /\ \A w \in Workers : wpc[w] # "dead"
    /\ \A w \in Workers : wpc[w] = "stopped" => task_queue = {}

\* C15 (registry read after all writes): when main() is past join() and reads
\* SKIPPED_TESTS for the report, the queue is empty, no worker is inside
\* run_individual_python_test, and from then on SKIPPED_TESTS is not written.
C15_ReadAfterWrites ==
    /\ [](mainPc = "passed" => (task_queue = {} /\ \A w \in Workers : ~Running(w)))
    /\ [][(mainPc = "passed" /\ mainPc' = "passed") => SKIPPED_TESTS' = SKIPPED_TESTS]_vars

\* main() is about to read a registry that two workers may have written, and
\* one of them has not yet seen the empty queue
C15_Witness ==
    /\ mainPc = "passed"
    /\ parallelism = 2
    /\ SKIPPED_TESTS # {}
    /\ \E w \in Workers : wpc[w] = "get"
    /\ \A s \in TaskSeqs : outcome[s] = "finished"

\* C16 (failure reports are serialised): what the failure path prints for one
\* task (its echoed lines and its summary line) is never split by what it
\* prints for another task.
C16_FailureReportsSerialised ==
    \A i, j, k \in DOMAIN console :
        (i < j /\ j < k /\ console[i].seq = console[k].seq) => console[j].seq = console[i].seq

\* a worker is past the test of retcode (line 122)
Classified(w) == wpc[w] \in {"write_log", "echo", "summary", "finished"}

\* C17 (cleanup precedes classification): a task whose run is on the failure
\* path or on the success path had the removal of its tmp_dir called before,
\* and the path taken is the one of its exit code, whether or not the removal
\* left the directory behind.
C17_CleanupPrecedesClassification ==
    /\ \A w \in Workers : Classified(w) => wtask[w].seq \in rmtree_calls
    /\ \A s \in TaskSeqs : outcome[s] \in {"failed", "finished", "skip_error"} => s \in rmtree_calls
    /\ \A w \in Workers : wpc[w] \in {"write_log", "echo", "summary"} => retcode[w] # 0
    /\ \A w \in Workers : wpc[w] = "finished" => retcode[w] = 0
    /\ \A w \in Workers : wpc[w] = "classify" => wtask[w].seq \in rmtree_calls

\* a failing task is about to end the process although the removal of its
\* directories left them behind
C17_Witness ==
    \E w \in Workers :
        /\ wpc[w] = "summary"
        /\ retcode[w] = 1
        /\ tmp_dir[w] \in fs
        /\ metastore_dir[w] \in fs
        /\ wtask[w].seq \in rmtree_calls

\* the lines of out are in log, together and in order
ContainsBlock(log, out) ==
    \E i \in 0..(Len(log) - Len(out)) : SubSeq(log, i + 1, i + Len(out)) = out

\* C18 as claimed (log before exit): when the failure path of a task has ended
\* the process, LOG_FILE holds the whole captured output of that task.
C18_LogBeforeExit ==
    \A s \in TaskSeqs :
        (exited /\ outcome[s] = "failed")
            => \A a \in log_writes : a.seq = s => ContainsBlock(log_file, a.lines)

\* C18 as amended: the same, for the tasks whose append to LOG_FILE did not
\* raise.
C18_LogBeforeExitUnlessWriteRaises ==
    \A s \in TaskSeqs :
        (exited /\ outcome[s] = "failed")
            => \A a \in log_writes :
                   (a.seq = s /\ ~a.raised) => ContainsBlock(log_file, a.lines)

\* two tasks failed at the same time with different outputs, both were appended
\* and one of them ended the process
C18_Witness ==
    /\ exited
    /\ \E a, b \in log_writes :
         /\ a.seq # b.seq
         /\ a.lines # b.lines
         /\ ~a.raised
         /\ ~b.raised
         /\ outcome[a.seq] = "failed"
         /\ log_file = b.lines \o a.lines

\* C19 (no hang): main() never waits in join() with tasks still counted as
\* unfinished while no worker thread is left to take them.
C19_NoHang ==
    ~(/\ ~exited
      /\ mainPc = "join"
      /\ unfinished_tasks > 0
      /\ \A w \in Workers : wpc[w] \in {"unstarted", "stopped", "dead"})

====
